---------------------------- MODULE Spec2Model ----------------------------
(***************************************************************************)
(* Version Store of obsidian-version-views                                 *)
(* (src/src/services/version-storage.ts) over a model of the host vault:   *)
(* per version folder an index file versions.json and the snapshot files   *)
(* version_<timestamp>_<vid>.md, plus the live documents.                  *)
(*                                                                         *)
(* Every public operation of VersionStorageService is one action; its      *)
(* body is computed by an operator of the same name that maps a vault      *)
(* state to the vault state the call leaves behind and to what the call    *)
(* returns (or that it threw).                                             *)
(***************************************************************************)
EXTENDS Integers, Sequences, FiniteSets, TLC

VARIABLES
    folders,     \* set of folder paths that exist in the vault
    indexFiles,  \* folder path -> the versions.json file in it
    children,    \* folder path -> sequence of snapshot files (folder.children order)
    docs,        \* document path -> live text of the document
    now,         \* the last reading of the host clock Date.now()
    ret,         \* the call of the service that has just ended, and its result
    failures,    \* number of calls so far under which an I/O of the host failed
    versionView, \* VersionViewLeaf.versionView: not yet made, open, or closed
    activeFile,  \* path of app.workspace.getActiveFile(), or null
    isRendering,   \* VersionView.isRendering
    pendingRender, \* VersionView.pendingRender
    currentFile,   \* VersionView.currentFile (a path, or null)
    container,     \* what the panel's container element shows
    bodies,      \* the render bodies suspended at await getVersions, each
                 \* with the path of the document it renders
    requested,   \* number of render() calls since the last body began that
                 \* found isRendering set (counted up to MaxRequested)
    last,        \* the step of the panel that has just been taken
    oldText,     \* DiffViewModal.oldContent: the text of the version
    newText,     \* DiffViewModal.newContent: the text of the document
    diffs,       \* what dmp.diff_main and diff_cleanupSemantic give for them
    segments,    \* what computeDiff has returned
    panes,       \* what renderSideBySide has returned
    tasks,       \* the saveVersion calls in flight, each at one of its awaits
    autoSave,    \* settings.autoSave
    saved        \* the saveVersion calls begun so far: document, timestamp,
                 \* random number, name and description

storeVars == <<folders, indexFiles, children, docs, now, ret, failures>>

panelVars == <<versionView, activeFile, isRendering, pendingRender,
               currentFile, container, bodies, requested, last>>

diffVars == <<oldText, newText, diffs, segments, panes>>

taskVars == <<tasks, autoSave, saved>>

vars == <<storeVars, panelVars, diffVars, taskVars>>

---------------------------------------------------------------------------
(* Bounds of the model *)

\* largest clock reading
MaxTime == 3

\* number of values Math.random() * 1000000 can floor to in the model
MaxVid == 2

\* settings.maxVersions, the retention ceiling
maxVersions == 2

\* largest number of calls of one run under which an I/O of the host fails
MaxFailures == 1

\* largest count kept of the render() calls that found a render in flight
MaxRequested == 2

\* largest number of segments of an edit script
MaxSegs == 3

\* largest number of saveVersion calls in flight at once
MaxTasks == 2

\* largest number of saveVersion calls begun step by step in a run, no two
\* of them alike in clock reading, random number, name and description
MaxSaves == 3

---------------------------------------------------------------------------
(* Values *)

\* JavaScript undefined (an optional argument or field left out) and null
Undefined == "<undefined>"
Null == "<null>"

\* what a user can type as a name / description
Names == {"", "n"}
Descriptions == {"d"}
OptNames == Names \cup {Undefined}
OptDescriptions == Descriptions \cup {Undefined}

\* texts a document can hold
Texts == {"A", "B"}

Time == 1..MaxTime
Vids == 0..(MaxVid - 1)

\* settings.storageFolder
storageFolder == "res/versions"

\* The documents: TFile.path and TFile.name, the name split at its dots
Files == {[path |-> "notes/a.md", name |-> <<"a", "md">>]}

\* the I/O calls of the host that a call of the service can see fail
NoFault == "none"
Faults == {"readDoc", "modifyDoc", "createFolder", "createContent",
           "readContent", "deleteContent", "readIndex", "writeIndex"}

---------------------------------------------------------------------------
(* Paths and file names *)

\* filename.replace(/\.[^/.]+$/, ''): drop a last non-empty dot segment
StripExtension(name) ==
    IF Len(name) >= 2 /\ name[Len(name)] # ""
    THEN SubSeq(name, 1, Len(name) - 1)
    ELSE name

getVersionFolder(filename) == <<storageFolder, StripExtension(filename)>>

\* `version_${timestamp}_${vid}.md`, split at '_' and '.'
versionFilename(timestamp, vid) == <<"version", timestamp, vid, "md">>

\* the loop body's test in getVersionContent / deleteVersion: the child is
\* named version_..., ends in .md, has at least two '_' parts, and the first
\* part parses to the timestamp
ChildMatches(child, timestamp) ==
    /\ Len(child.name) >= 2
    /\ child.name[1] = "version"
    /\ child.name[Len(child.name)] = "md"
    /\ Len(child.name) - 2 >= 2
    /\ child.name[2] = timestamp

---------------------------------------------------------------------------
(* JSON: versions.json holds JSON.stringify(index); undefined fields are     *)
(* left out of the text, and reading a field that is not there gives         *)
(* undefined                                                                 *)

OptionalKeys == {"name", "description"}

StringifyMeta(meta) ==
    [k \in {x \in DOMAIN meta : x \notin OptionalKeys \/ meta[x] # Undefined}
        |-> meta[k]]

JSONStringify(index) ==
    [versions |-> [i \in 1..Len(index.versions) |-> StringifyMeta(index.versions[i])],
     lastUpdated |-> index.lastUpdated]

Field(obj, key) == IF key \in DOMAIN obj THEN obj[key] ELSE Undefined

\* obj[key] = value on a parsed object
SetField(obj, key, value) ==
    [k \in (DOMAIN obj) \cup {key} |-> IF k = key THEN value ELSE obj[k]]

EmptyIndex == [versions |-> <<>>, lastUpdated |-> 0]

NoIndexFile == [exists |-> FALSE, valid |-> TRUE, data |-> EmptyIndex]

---------------------------------------------------------------------------
(* The vault state the operators work on *)

Vault == [folders |-> folders, indexFiles |-> indexFiles,
          children |-> children, docs |-> docs]

FolderPaths == {getVersionFolder(f.name) : f \in Files}

\* result of a call: the vault it leaves, whether it threw, what it returned
Result(v, threw, value) == [v |-> v, threw |-> threw, value |-> value]

---------------------------------------------------------------------------
(* The private helpers of the service *)

\* return JSON.parse(content) of a parser that recovers what it can from a
\* damaged text instead of throwing
readVersionIndexLenient(v, filename, fault) ==
    LET file == v.indexFiles[getVersionFolder(filename)]
    IN  IF file.exists /\ fault # "readIndex"
        THEN file.data
        ELSE EmptyIndex

\* the try block returns the parsed text of the file when it is there, can be
\* read and parses; every other way ends in { versions: [], lastUpdated: 0 }
readVersionIndex(v, filename, fault) ==
    LET file == v.indexFiles[getVersionFolder(filename)]
    IN  IF file.exists /\ fault # "readIndex" /\ file.valid
        THEN file.data
        ELSE EmptyIndex

ensureFolderExists(v, folderPath, fault) ==
    IF folderPath \in v.folders
    THEN Result(v, FALSE, Undefined)
    ELSE IF fault = "createFolder"
         THEN Result(v, TRUE, Undefined)
         ELSE Result([v EXCEPT !.folders = @ \cup {folderPath}], FALSE, Undefined)

writeVersionIndex(v, filename, index, fault) ==
    LET folderPath == getVersionFolder(filename)
        e == ensureFolderExists(v, folderPath, fault)
    IN  IF e.threw THEN e
        ELSE IF fault = "writeIndex"
             THEN Result(e.v, TRUE, Undefined)
             ELSE Result([e.v EXCEPT !.indexFiles[folderPath] =
                             [exists |-> TRUE, valid |-> TRUE,
                              data |-> JSONStringify(index)]],
                         FALSE, Undefined)


---------------------------------------------------------------------------
(* The public operations of the service *)

\* position of the first child of the folder the loop matches, 0 if none
FirstMatch(kids, timestamp) ==
    IF \E i \in 1..Len(kids) : ChildMatches(kids[i], timestamp)
    THEN CHOOSE i \in 1..Len(kids) :
            /\ ChildMatches(kids[i], timestamp)
            /\ \A j \in 1..(i - 1) : ~ChildMatches(kids[j], timestamp)
    ELSE 0

RemoveAt(seq, i) == SubSeq(seq, 1, i - 1) \o SubSeq(seq, i + 1, Len(seq))

\* index.versions.filter(v => v.timestamp !== timestamp)
FilterVersions(versions, timestamp) ==
    SelectSeq(versions, LAMBDA m : m.timestamp # timestamp)

getVersions(v, file, fault) ==
    Result(v, FALSE, readVersionIndex(v, file.name, fault).versions)

getVersionContent(v, file, timestamp, fault) ==
    LET folderPath == getVersionFolder(file.name)
        index == readVersionIndex(v, file.name, fault)
        found == \E i \in 1..Len(index.versions) :
                    index.versions[i].timestamp = timestamp
        kids == v.children[folderPath]
        i == FirstMatch(kids, timestamp)
    IN  IF ~found THEN Result(v, FALSE, Null)
        ELSE IF folderPath \notin v.folders THEN Result(v, FALSE, Null)
        ELSE IF i = 0 THEN Result(v, FALSE, Null)
        ELSE IF fault = "readContent" THEN Result(v, FALSE, Null)
        ELSE Result(v, FALSE, kids[i].content)

\* deleteVersion without the loop over the folder's children
deleteVersionIndexOnly(v, file, timestamp, fault) ==
    LET index == readVersionIndex(v, file.name, fault)
        filtered == [index EXCEPT !.versions = FilterVersions(@, timestamp)]
    IN  Result(writeVersionIndex(v, file.name, filtered, fault).v, FALSE, Undefined)

deleteVersion(v, file, timestamp, fault) ==
    LET folderPath == getVersionFolder(file.name)
        index == readVersionIndex(v, file.name, fault)
        filtered == [index EXCEPT !.versions = FilterVersions(@, timestamp)]
        w == writeVersionIndex(v, file.name, filtered, fault)
        kids == w.v.children[folderPath]
        i == FirstMatch(kids, timestamp)
    IN  IF w.threw THEN Result(w.v, FALSE, Undefined)
        ELSE IF folderPath \notin w.v.folders THEN Result(w.v, FALSE, Undefined)
        ELSE IF i = 0 THEN Result(w.v, FALSE, Undefined)
        ELSE IF fault = "deleteContent" THEN Result(w.v, FALSE, Undefined)
        ELSE Result([w.v EXCEPT !.children[folderPath] = RemoveAt(@, i)],
                    FALSE, Undefined)

\* for (const version of toDelete) await this.deleteVersion(file, version.timestamp)
RECURSIVE DeleteEach(_, _, _, _)
DeleteEach(v, file, toDelete, fault) ==
    IF toDelete = <<>> THEN v
    ELSE DeleteEach(deleteVersion(v, file, Head(toDelete).timestamp, fault).v,
                    file, Tail(toDelete), fault)

\* index.versions.slice(this.settings.maxVersions + 1): one entry too many kept
SliceFromNext(versions, n) == SubSeq(versions, n + 2, Len(versions))

\* index.versions.slice(this.settings.maxVersions)
SliceFrom(versions, n) == SubSeq(versions, n + 1, Len(versions))

cleanupOldVersions(v, file, fault) ==
    LET index == readVersionIndex(v, file.name, fault)
    IN  IF Len(index.versions) > maxVersions
        THEN DeleteEach(v, file, SliceFrom(index.versions, maxVersions), fault)
        ELSE v

\* `V${n}` for the version numbers the model reaches
AutoLabels == <<"V1", "V2", "V3", "V4", "V5", "V6", "V7", "V8", "V9">>

\* const autoName = `V${index.versions.length + 1}`
autoName(index) == AutoLabels[Len(index.versions) + 1]

\* name: name ?? autoName: the label stored when no name is given
MetaNameOrLabel(name, label) == IF name = Undefined THEN label ELSE name

\* name: name, with autoName in scope and not used
MetaName(name, label) == name

\* the VersionMeta saveVersion builds; snapshot is a history field of the
\* model (the text the call captured), which no operation reads
NewMeta(file, timestamp, name, description, content) ==
    [filename |-> file.name, timestamp |-> timestamp, name |-> name,
     description |-> description, originalPath |-> file.path,
     snapshot |-> content]

\* index.versions.push(meta): the new entry put last
Push(index, meta, timestamp) ==
    [versions |-> Append(index.versions, meta), lastUpdated |-> timestamp]

\* index.versions.unshift(meta); index.lastUpdated = timestamp
Unshift(index, meta, timestamp) ==
    [versions |-> <<meta>> \o index.versions, lastUpdated |-> timestamp]

saveVersion(v, file, name, description, timestamp, vid, fault) ==
    LET folderPath == getVersionFolder(file.name)
        content == v.docs[file.path]
        e == ensureFolderExists(v, folderPath, fault)
        kid == [name |-> versionFilename(timestamp, vid), content |-> content]
        exists == \E i \in 1..Len(e.v.children[folderPath]) :
                     e.v.children[folderPath][i].name = kid.name
        c == [e.v EXCEPT !.children[folderPath] = Append(@, kid)]
        index == readVersionIndex(c, file.name, fault)
        meta == NewMeta(file, timestamp, MetaName(name, autoName(index)),
                        description, content)
        w == writeVersionIndex(c, file.name, Unshift(index, meta, timestamp), fault)
    IN  IF fault = "readDoc" THEN Result(v, TRUE, Undefined)
        ELSE IF e.threw THEN Result(e.v, TRUE, Undefined)
        ELSE IF exists \/ fault = "createContent" THEN Result(e.v, TRUE, Undefined)
        ELSE IF w.threw THEN Result(w.v, TRUE, Undefined)
        ELSE Result(cleanupOldVersions(w.v, file, fault), FALSE, meta)

\* restoreVersion with vault.modify outside the try block
restoreVersionUncaught(v, file, timestamp, fault) ==
    LET content == getVersionContent(v, file, timestamp, fault).value
    IN  IF content = Null THEN Result(v, FALSE, FALSE)
        ELSE IF fault = "modifyDoc" THEN Result(v, TRUE, Undefined)
        ELSE Result([v EXCEPT !.docs[file.path] = content], FALSE, TRUE)

restoreVersion(v, file, timestamp, fault) ==
    LET content == getVersionContent(v, file, timestamp, fault).value
    IN  IF content = Null THEN Result(v, FALSE, FALSE)
        ELSE IF fault = "modifyDoc" THEN Result(v, FALSE, FALSE)
        ELSE Result([v EXCEPT !.docs[file.path] = content], FALSE, TRUE)

\* version.name = updates.name; version.description = updates.description,
\* whether given or not
AssignBoth(version, updates) ==
    SetField(SetField(version, "name", updates.name),
             "description", updates.description)

\* if (updates.x !== undefined) version.x = updates.x
ApplyUpdates(version, updates) ==
    LET named == IF updates.name # Undefined
                 THEN SetField(version, "name", updates.name)
                 ELSE version
    IN  IF updates.description # Undefined
        THEN SetField(named, "description", updates.description)
        ELSE named

\* index.versions.findIndex(v => v.timestamp === timestamp), 0 for -1
FindIndex(versions, timestamp) ==
    IF \E i \in 1..Len(versions) : versions[i].timestamp = timestamp
    THEN CHOOSE i \in 1..Len(versions) :
            /\ versions[i].timestamp = timestamp
            /\ \A j \in 1..(i - 1) : versions[j].timestamp # timestamp
    ELSE 0

updateVersion(v, file, timestamp, updates, fault) ==
    LET index == readVersionIndex(v, file.name, fault)
        versionIndex == FindIndex(index.versions, timestamp)
        updated == [index EXCEPT !.versions[versionIndex] = ApplyUpdates(@, updates)]
        w == writeVersionIndex(v, file.name, updated, fault)
    IN  IF versionIndex = 0 THEN Result(v, FALSE, FALSE)
        ELSE IF w.threw THEN Result(w.v, FALSE, FALSE)
        ELSE Result(w.v, FALSE, TRUE)

---------------------------------------------------------------------------
(* The panel (src/src/ui/version-view.ts) *)

\* versionNumber = versions.length - i - 1: numbers from 0
VersionNumbersFromZero(versions) ==
    [i \in 1..Len(versions) |-> Len(versions) - i]

\* the numbers render gives the items of the list it got from getVersions:
\* for (let i = 0; i < versions.length; i++) versionNumber = versions.length - i
VersionNumbers(versions) ==
    [i \in 1..Len(versions) |-> Len(versions) - (i - 1)]

\* the documents by path; the host has one of them active, or none (null)
Paths == {f.path : f \in Files}
FileAt(path) == CHOOSE f \in Files : f.path = path

\* what the container element shows: nothing yet, the "open a file first"
\* message, the header of a list being built, the "no versions" message, or
\* the version items with their numbers
Shows(what, numbers) == [shows |-> what, numbers |-> numbers]

\* the panel object as render sees it; runs counts the render bodies begun
\* by the call at hand
Panel == [isRendering |-> isRendering, pendingRender |-> pendingRender,
          currentFile |-> currentFile, container |-> container,
          bodies |-> bodies, runs |-> 0]

\* render() from this.isRendering = true to its first await: the early
\* return with no active document leaves isRendering set
renderBody(w, active) ==
    IF active = Null
    THEN [w EXCEPT !.isRendering = TRUE, !.runs = @ + 1,
                   !.container = Shows("noFile", <<>>)]
    ELSE [w EXCEPT !.isRendering = TRUE, !.runs = @ + 1,
                   !.currentFile = active,
                   !.container = Shows("building", <<>>),
                   !.bodies = Append(@, active)]

\* render() without the test of isRendering
renderUnguarded(w, active) == renderBody(w, active)

\* a call of render(): if (this.isRendering) { this.pendingRender = true;
\* return; } and else the body
render(w, active) ==
    IF w.isRendering
    THEN [w EXCEPT !.pendingRender = TRUE]
    ELSE renderBody(w, active)

\* render() from the return of getVersions to its end, for the i-th suspended
\* body: the list or the "no versions" message, this.isRendering = false, and
\* the call of render() again if pendingRender is set
renderResume(w, i, versions, active) ==
    LET shown == [w EXCEPT !.bodies = RemoveAt(@, i),
                           !.container =
                               IF Len(versions) = 0
                               THEN Shows("noVersions", <<>>)
                               ELSE Shows("list", VersionNumbers(versions)),
                           !.isRendering = FALSE]
    IN  IF shown.pendingRender
        THEN render([shown EXCEPT !.pendingRender = FALSE], active)
        ELSE shown

---------------------------------------------------------------------------
(* The diff service (src/src/services/version-diff.ts).  A text is the      *)
(* sequence of its characters; a rendered line is a sequence of tokens: the *)
(* characters and entities of its escaped text and the tags put around it.  *)

NL == "\n"

\* the texts the segments of an edit script are made of: a partial line, a
\* whole line, a blank, a character escapeHtml replaces, a line of three
\* dashes, a frontmatter block, and a body line followed by a line of dashes
SegTexts ==
    { <<"a">>,
      <<"a", NL>>,
      <<" ">>,
      <<"<">>,
      <<"-", "-", "-", NL>>,
      <<"-", "-", "-", NL, "k", NL, "-", "-", "-", NL>>,
      <<"b", NL, "-", "-", "-", NL>> }

\* the operations of diff-match-patch: DIFF_DELETE, DIFF_EQUAL, DIFF_INSERT
DiffOps == {-1, 0, 1}

RECURSIVE SeqsUpTo(_, _)
SeqsUpTo(S, n) ==
    IF n = 0 THEN {<<>>}
    ELSE LET shorter == SeqsUpTo(S, n - 1)
         IN  shorter \cup {Append(q, x) : q \in {r \in shorter : Len(r) = n - 1},
                                          x \in S}

\* the edit scripts diff_main followed by diff_cleanupSemantic returns: up to
\* MaxSegs pairs [operation, text] of non-empty texts, neighbours differing
\* in their operation
LibraryScripts ==
    {d \in SeqsUpTo(DiffOps \X SegTexts, MaxSegs) :
        \A i \in 1..(Len(d) - 1) : d[i][1] # d[i + 1][1]}

RECURSIVE ConcatTexts(_, _)
ConcatTexts(d, ops) ==
    IF d = <<>> THEN <<>>
    ELSE (IF Head(d)[1] \in ops THEN Head(d)[2] ELSE <<>>)
            \o ConcatTexts(Tail(d), ops)

\* the two texts an edit script is a script of
OldOf(d) == ConcatTexts(d, {0, -1})
NewOf(d) == ConcatTexts(d, {0, 1})

\* the switch of computeDiff with its first two cases exchanged
SegmentOfSwapped(type, text) ==
    IF type = 1 THEN [type |-> "delete", text |-> text]
    ELSE IF type = -1 THEN [type |-> "insert", text |-> text]
    ELSE [type |-> "equal", text |-> text]

\* diffs.map(([type, text]) => ...): case 1 insert, case -1 delete, default equal
SegmentOf(type, text) ==
    IF type = 1 THEN [type |-> "insert", text |-> text]
    ELSE IF type = -1 THEN [type |-> "delete", text |-> text]
    ELSE [type |-> "equal", text |-> text]

\* computeDiff(oldText, newText), d being what the library gives for the texts
computeDiff(d) == [i \in 1..Len(d) |-> SegmentOf(d[i][1], d[i][2])]

\* the tags renderSideBySide and markFrontmatter put around a line
DelOpen == "<del class=\"version-diff-delete\">"
DelClose == "</del>"
InsOpen == "<ins class=\"version-diff-insert\">"
InsClose == "</ins>"
SpanOpen == "<span class=\"version-diff-frontmatter\">"
SpanClose == "</span>"
Tags == {DelOpen, DelClose, InsOpen, InsClose, SpanOpen, SpanClose}

Wrap(open, html, close) == <<open>> \o html \o <<close>>

\* escapeHtml: & < > " ' are replaced by their entities
escapeHtml(text) ==
    [i \in 1..Len(text) |->
        CASE text[i] = "&" -> "&amp;"
          [] text[i] = "<" -> "&lt;"
          [] text[i] = ">" -> "&gt;"
          [] text[i] = "\"" -> "&quot;"
          [] text[i] = "'" -> "&#039;"
          [] OTHER -> text[i]]

\* text.split('\n')
RECURSIVE SplitLines(_)
SplitLines(text) ==
    IF \E i \in 1..Len(text) : text[i] = NL
    THEN LET i == CHOOSE k \in 1..Len(text) :
                     /\ text[k] = NL
                     /\ \A j \in 1..(k - 1) : text[j] # NL
         IN  <<SubSeq(text, 1, i - 1)>> \o SplitLines(SubSeq(text, i + 1, Len(text)))
    ELSE <<text>>

\* text.endsWith('\n')
EndsWithNL(text) == Len(text) > 0 /\ text[Len(text)] = NL

\* String.prototype.trim on a line: white space at both ends goes
IsSpace(c) == c \in {" ", NL}
Trim(s) ==
    LET inked == {i \in 1..Len(s) : ~IsSpace(s[i])}
    IN  IF inked = {} THEN <<>>
        ELSE SubSeq(s, CHOOSE i \in inked : \A j \in inked : i <= j,
                       CHOOSE i \in inked : \A j \in inked : i >= j)

\* line.replace(/<[^>]+>/g, ''): the escaped text holds no '<', so what goes
\* is the tags
StripTags(html) == SelectSeq(html, LAMBDA tok : tok \notin Tags)

\* a line pushed to leftLines or rightLines; origin is a history field of the
\* model (the kind of segment the text of the line came from), which no
\* operation reads
Emit(html, origin) == [html |-> html, origin |-> origin]

RenderStart == [leftLines |-> <<>>, rightLines |-> <<>>,
                currentOld |-> <<>>, currentNew |-> <<>>]

\* the two flushes of pending text, at an equal line and after the loop
FlushOld(st) ==
    IF st.currentOld # <<>>
    THEN [st EXCEPT !.leftLines =
                        Append(@, Emit(Wrap(DelOpen, escapeHtml(st.currentOld),
                                            DelClose), "delete")),
                    !.currentOld = <<>>]
    ELSE st

FlushNew(st) ==
    IF st.currentNew # <<>>
    THEN [st EXCEPT !.rightLines =
                        Append(@, Emit(Wrap(InsOpen, escapeHtml(st.currentNew),
                                            InsClose), "insert")),
                    !.currentNew = <<>>]
    ELSE st

\* the body of the inner loop: one line of one segment
renderLine(st, type, text, line, isLast) ==
    LET lineWithNewline == IF isLast THEN line ELSE Append(line, NL)
        closes == ~isLast \/ (isLast /\ EndsWithNL(text))
    IN  IF type = 1
        THEN LET currentNew == st.currentNew \o lineWithNewline
             IN  IF closes
                 THEN [st EXCEPT !.rightLines =
                                     Append(@, Emit(escapeHtml(currentNew), "insert")),
                                 !.currentNew = <<>>]
                 ELSE [st EXCEPT !.currentNew = currentNew]
        ELSE IF type = -1
        THEN LET currentOld == st.currentOld \o lineWithNewline
             IN  IF closes
                 THEN [st EXCEPT !.leftLines =
                                     Append(@, Emit(Wrap(DelOpen, escapeHtml(currentOld),
                                                         DelClose), "delete")),
                                 !.currentOld = <<>>]
                 ELSE [st EXCEPT !.currentOld = currentOld]
        ELSE LET flushed == FlushNew(FlushOld(st))
             IN  [flushed EXCEPT
                    !.leftLines = Append(@, Emit(escapeHtml(lineWithNewline), "equal")),
                    !.rightLines = Append(@, Emit(escapeHtml(lineWithNewline), "equal"))]

\* for (let i = 0; i < lines.length; i++)
RECURSIVE renderLines(_, _, _, _, _)
renderLines(st, type, text, lines, i) ==
    IF i > Len(lines) THEN st
    ELSE renderLines(renderLine(st, type, text, lines[i], i = Len(lines)),
                     type, text, lines, i + 1)

\* for (const diff of diffs)
RECURSIVE renderDiffs(_, _)
renderDiffs(st, d) ==
    IF d = <<>> THEN st
    ELSE renderDiffs(renderLines(st, Head(d)[1], Head(d)[2],
                                 SplitLines(Head(d)[2]), 1),
                     Tail(d))

\* lines.filter(line => line.trim().length > 0)
FilterLines(lines) == SelectSeq(lines, LAMBDA line : Len(Trim(line.html)) > 0)

Dashes == <<"-", "-", "-">>

Marked(line) == [line EXCEPT !.html = Wrap(SpanOpen, @, SpanClose)]

\* markFrontmatter with every line of dashes opening or closing a block
RECURSIVE markToggle(_, _)
markToggle(lines, inFrontmatter) ==
    IF lines = <<>> THEN <<>>
    ELSE LET line == Head(lines)
             textContent == Trim(StripTags(line.html))
         IN  IF textContent = Dashes
             THEN <<Marked(line)>> \o markToggle(Tail(lines), ~inFrontmatter)
             ELSE IF inFrontmatter
             THEN <<Marked(line)>> \o markToggle(Tail(lines), inFrontmatter)
             ELSE <<line>> \o markToggle(Tail(lines), inFrontmatter)

markFrontmatterToggle(lines) == markToggle(lines, FALSE)

\* the callback of lines.map in markFrontmatter, over the lines from the
\* first on, with the two flags it keeps
RECURSIVE markLines(_, _, _)
markLines(lines, inFrontmatter, frontmatterFound) ==
    IF lines = <<>> THEN <<>>
    ELSE LET line == Head(lines)
             textContent == Trim(StripTags(line.html))
         IN  IF textContent = Dashes /\ ~frontmatterFound
             THEN <<Marked(line)>> \o markLines(Tail(lines), TRUE, TRUE)
             ELSE IF textContent = Dashes /\ inFrontmatter
             THEN <<Marked(line)>> \o markLines(Tail(lines), FALSE, frontmatterFound)
             ELSE IF inFrontmatter
             THEN <<Marked(line)>> \o markLines(Tail(lines), inFrontmatter, frontmatterFound)
             ELSE <<line>> \o markLines(Tail(lines), inFrontmatter, frontmatterFound)

markFrontmatter(lines) == markLines(lines, FALSE, FALSE)

\* lines.join('\n')
RECURSIVE Join(_)
Join(lines) ==
    IF lines = <<>> THEN <<>>
    ELSE IF Len(lines) = 1 THEN Head(lines).html
    ELSE Head(lines).html \o <<NL>> \o Join(Tail(lines))

\* renderSideBySide(oldText, newText), d being what the library gives for the
\* texts: the lines of the two panes before and after filtering and marking,
\* and the two strings returned
renderSideBySide(d) ==
    LET looped == FlushNew(FlushOld(renderDiffs(RenderStart, d)))
        filteredLeftLines == FilterLines(looped.leftLines)
        filteredRightLines == FilterLines(looped.rightLines)
        leftWithFrontmatter == markFrontmatter(filteredLeftLines)
        rightWithFrontmatter == markFrontmatter(filteredRightLines)
    IN  [filteredLeftLines |-> filteredLeftLines,
         filteredRightLines |-> filteredRightLines,
         leftLines |-> leftWithFrontmatter,
         rightLines |-> rightWithFrontmatter,
         left |-> Join(leftWithFrontmatter),
         right |-> Join(rightWithFrontmatter)]

\* a call that has not been made, and the result of one that has
NotCalled == [called |-> FALSE, value |-> <<>>]
Returned(value) == [called |-> TRUE, value |-> value]

---------------------------------------------------------------------------
(* saveVersion as the host's event loop runs it: an async function gives    *)
(* way at each of its awaits, so the I/O steps of two calls can interleave;  *)
(* what runs between two awaits runs alone                                   *)

\* the description autoSaveVersion passes to saveVersion
AutoSaveMark == "auto-saved"

\* a slot with no call in flight; caller and outcome keep who made the last
\* call of the slot and how the caller took its end
NoTask == [pc |-> "idle", caller |-> "none", path |-> Null,
           name |-> Undefined, description |-> Undefined,
           timestamp |-> 0, vid |-> 0, content |-> Undefined,
           index |-> EmptyIndex, toDelete |-> <<>>, outcome |-> "none"]

\* saveVersion up to its first await: Date.now() and Math.random() are read,
\* then it waits for vault.read
saveVersionBegin(file, caller, name, description, timestamp, vid) ==
    [NoTask EXCEPT !.pc = "read", !.caller = caller, !.path = file.path,
                   !.name = name, !.description = description,
                   !.timestamp = timestamp, !.vid = vid]

\* saveCurrentVersion awaits saveVersion outside any try block
saveCurrentVersion(threw) == IF threw THEN "rejected" ELSE "notified"

\* autoSaveVersion without its try block
autoSaveVersionUncaught(threw) == IF threw THEN "rejected" ELSE "logged"

\* autoSaveVersion awaits saveVersion inside try/catch and logs either way
autoSaveVersion(threw) == IF threw THEN "caught" ELSE "logged"

\* the promise of saveVersion settles and its caller's continuation runs
Settle(task, threw) ==
    [NoTask EXCEPT !.caller = task.caller,
                   !.outcome = IF task.caller = "auto"
                               THEN autoSaveVersion(threw)
                               ELSE saveCurrentVersion(threw)]

\* result of one step: the vault it leaves, the call's position and locals,
\* whether the call has ended, and whether it ended by throwing
Stepped(v, task, ended, threw) ==
    [v |-> v, task |-> task, ended |-> ended, threw |-> threw]

\* the code of saveVersion from the await the call stands at to the next one
saveVersionStep(v, task) ==
    LET file == FileAt(task.path)
        folderPath == getVersionFolder(file.name)
        kids == v.children[folderPath]
    IN  CASE task.pc = "read" ->
                Stepped(v, [task EXCEPT !.content = v.docs[file.path],
                                        !.pc = "folder"], FALSE, FALSE)
          [] task.pc = "folder" ->
                Stepped(ensureFolderExists(v, folderPath, NoFault).v,
                        [task EXCEPT !.pc = "create"], FALSE, FALSE)
          [] task.pc = "create" ->
                LET kid == [name |-> versionFilename(task.timestamp, task.vid),
                            content |-> task.content]
                IN  IF \E i \in 1..Len(kids) : kids[i].name = kid.name
                    THEN Stepped(v, task, TRUE, TRUE)
                    ELSE Stepped([v EXCEPT !.children[folderPath] = Append(@, kid)],
                                 [task EXCEPT !.pc = "readIndex"], FALSE, FALSE)
          [] task.pc = "readIndex" ->
                Stepped(v, [task EXCEPT !.index = readVersionIndex(v, file.name, NoFault),
                                        !.pc = "writeIndex"], FALSE, FALSE)
          [] task.pc = "writeIndex" ->
                LET meta == NewMeta(file, task.timestamp,
                                    MetaName(task.name, autoName(task.index)),
                                    task.description, task.content)
                    index == Unshift(task.index, meta, task.timestamp)
                IN  Stepped(writeVersionIndex(v, file.name, index, NoFault).v,
                            [task EXCEPT !.index = EmptyIndex, !.pc = "cleanup"],
                            FALSE, FALSE)
          [] task.pc = "cleanup" ->
                LET index == readVersionIndex(v, file.name, NoFault)
                    toDelete == SliceFrom(index.versions, maxVersions)
                IN  IF Len(index.versions) > maxVersions
                    THEN Stepped(v, [task EXCEPT
                                        !.toDelete = [i \in 1..Len(toDelete) |->
                                                         toDelete[i].timestamp],
                                        !.pc = "deleteRead"], FALSE, FALSE)
                    ELSE Stepped(v, task, TRUE, FALSE)
          [] task.pc = "deleteRead" ->
                LET index == readVersionIndex(v, file.name, NoFault)
                IN  Stepped(v, [task EXCEPT
                                   !.index = [index EXCEPT !.versions =
                                       FilterVersions(@, Head(task.toDelete))],
                                   !.pc = "deleteWrite"], FALSE, FALSE)
          [] task.pc = "deleteWrite" ->
                Stepped(writeVersionIndex(v, file.name, task.index, NoFault).v,
                        [task EXCEPT !.index = EmptyIndex, !.pc = "deleteFile"],
                        FALSE, FALSE)
          [] task.pc = "deleteFile" ->
                LET i == FirstMatch(kids, Head(task.toDelete))
                    left == [task EXCEPT !.toDelete = Tail(@), !.pc = "deleteRead"]
                    after == IF folderPath \in v.folders /\ i # 0
                             THEN [v EXCEPT !.children[folderPath] = RemoveAt(@, i)]
                             ELSE v
                IN  Stepped(after, left, left.toDelete = <<>>, FALSE)

\* a call of saveVersion: what it is asked to record in the index, and the
\* number it drew for the name of its content file
Asked(file, timestamp, vid, name, description) ==
    [filename |-> file.name, originalPath |-> file.path,
     timestamp |-> timestamp, vid |-> vid,
     name |-> name, description |-> description]

TaskIds == 1..MaxTasks

TaskInit ==
    /\ tasks = [t \in TaskIds |-> NoTask]
    /\ autoSave = FALSE
    /\ saved = {}

---------------------------------------------------------------------------
(* Actions *)

\* no call of the service is running: the caller is free to make one
NoCall == [op |-> "none", fault |-> NoFault, threw |-> FALSE,
           value |-> Undefined, before |-> 0]

Idle == ret.op = "none"

\* the call record: which operation ran, which I/O of the host failed under
\* it, and how it ended; before is the length of the document's version list
\* when the call began
Call(op, file, fault, r) ==
    [op |-> op, fault |-> fault, threw |-> r.threw, value |-> r.value,
     before |-> Len(readVersionIndex(Vault, file.name, NoFault).versions)]

\* no step of the panel has been taken
NoStep == [op |-> "none", inFlight |-> FALSE, requested |-> 0, started |-> 0]

\* the call leaves the vault r.v behind; a call under a failing I/O counts
Commit(r, fault) ==
    /\ folders' = r.v.folders
    /\ indexFiles' = r.v.indexFiles
    /\ children' = r.v.children
    /\ docs' = r.v.docs
    /\ fault # NoFault => failures < MaxFailures
    /\ failures' = IF fault = NoFault THEN failures ELSE failures + 1
    /\ UNCHANGED <<panelVars, diffVars, taskVars>>

\* Date.now() at the start of saveVersion reads timestamp, which is not
\* before the previous reading
SaveVersion(file, name, description, timestamp, vid, fault) ==
    LET r == saveVersion(Vault, file, name, description, timestamp, vid, fault)
    IN  /\ Idle
        /\ timestamp >= now
        /\ now' = timestamp
        /\ Commit(r, fault)
        /\ ret' = Call("saveVersion", file, fault, r)

GetVersions(file, fault) ==
    LET r == getVersions(Vault, file, fault)
    IN  /\ Idle
        /\ Commit(r, fault)
        /\ ret' = Call("getVersions", file, fault, r)
        /\ UNCHANGED now

GetVersionContent(file, timestamp, fault) ==
    LET r == getVersionContent(Vault, file, timestamp, fault)
    IN  /\ Idle
        /\ Commit(r, fault)
        /\ ret' = Call("getVersionContent", file, fault, r)
        /\ UNCHANGED now

DeleteVersion(file, timestamp, fault) ==
    LET r == deleteVersion(Vault, file, timestamp, fault)
    IN  /\ Idle
        /\ Commit(r, fault)
        /\ ret' = Call("deleteVersion", file, fault, r)
        /\ UNCHANGED now

RestoreVersion(file, timestamp, fault) ==
    LET r == restoreVersion(Vault, file, timestamp, fault)
    IN  /\ Idle
        /\ Commit(r, fault)
        /\ ret' = Call("restoreVersion", file, fault, r)
        /\ UNCHANGED now

UpdateVersion(file, timestamp, updates, fault) ==
    LET r == updateVersion(Vault, file, timestamp, updates, fault)
    IN  /\ Idle
        /\ Commit(r, fault)
        /\ ret' = Call("updateVersion", file, fault, r)
        /\ UNCHANGED now

\* the user edits the live document
EditDocument(file, text) ==
    /\ Idle
    /\ docs[file.path] # text
    /\ docs' = [docs EXCEPT ![file.path] = text]
    /\ UNCHANGED <<folders, indexFiles, children, now, ret, failures>>
    /\ UNCHANGED <<panelVars, diffVars, taskVars>>

Updates == [name : OptNames, description : OptDescriptions]

StoreInit ==
    /\ folders = {}
    /\ indexFiles = [p \in FolderPaths |-> NoIndexFile]
    /\ children = [p \in FolderPaths |-> <<>>]
    /\ docs \in [{f.path : f \in Files} -> Texts]
    /\ now = 1
    /\ ret = NoCall
    /\ failures = 0

PanelInit ==
    /\ versionView = "none"
    /\ activeFile = Null
    /\ isRendering = FALSE
    /\ pendingRender = FALSE
    /\ currentFile = Null
    /\ container = Shows("nothing", <<>>)
    /\ bodies = <<>>
    /\ requested = 0
    /\ last = NoStep

\* no diff has been asked for
Init ==
    /\ StoreInit
    /\ PanelInit
    /\ oldText = <<>>
    /\ newText = <<>>
    /\ diffs = <<>>
    /\ segments = NotCalled
    /\ panes = NotCalled
    /\ TaskInit

\* the calls of the service, with the host's I/O failing as `faults` allows
\* and names and descriptions drawn from the given sets
Calls(faults, names, descriptions) ==
    \E file \in Files, fault \in faults :
        \/ \E name \in names, description \in descriptions,
              timestamp \in Time, vid \in Vids :
              SaveVersion(file, name, description, timestamp, vid, fault)
        \/ GetVersions(file, fault)
        \/ \E timestamp \in Time : GetVersionContent(file, timestamp, fault)
        \/ \E timestamp \in Time : DeleteVersion(file, timestamp, fault)
        \/ \E timestamp \in Time : RestoreVersion(file, timestamp, fault)
        \/ \E timestamp \in Time,
              updates \in [name : names, description : descriptions] :
              UpdateVersion(file, timestamp, updates, fault)

\* the caller has taken the result of the call (its await resumed)
Return ==
    /\ ~Idle
    /\ ret' = NoCall
    /\ UNCHANGED <<folders, indexFiles, children, docs, now, failures>>
    /\ UNCHANGED <<panelVars, diffVars, taskVars>>

Environment ==
    \/ \E file \in Files, text \in Texts : EditDocument(file, text)
    \/ Return

\* every call runs with the host's I/O working
Next == Calls({NoFault}, OptNames, OptDescriptions) \/ Environment

Spec == Init /\ [][Next]_vars

\* a call may see one kind of I/O of the host fail
NextFault == Calls(Faults \cup {NoFault}, {""}, {Undefined}) \/ Environment

SpecFault == Init /\ [][NextFault]_vars

\* versions.json is damaged outside the plugin (cut short, edited by hand):
\* its text no longer parses; data keeps what the undamaged text held
CorruptIndex(file) ==
    LET folderPath == getVersionFolder(file.name)
    IN  /\ Idle
        /\ indexFiles[folderPath].exists
        /\ indexFiles[folderPath].valid
        /\ indexFiles' = [indexFiles EXCEPT ![folderPath].valid = FALSE]
        /\ UNCHANGED <<folders, children, docs, now, ret, failures>>
        /\ UNCHANGED <<panelVars, diffVars, taskVars>>

\* the calls with the host's I/O working, over index files that can be damaged
NextCorrupt ==
    \/ Calls({NoFault}, {""}, {Undefined})
    \/ Environment
    \/ \E file \in Files : CorruptIndex(file)

SpecCorrupt == Init /\ [][NextCorrupt]_vars

\* a snapshot file is removed outside the plugin (in the host's file
\* explorer): the i-th child of the version folder is gone
LoseSnapshot(file, i) ==
    LET folderPath == getVersionFolder(file.name)
    IN  /\ Idle
        /\ i \in 1..Len(children[folderPath])
        /\ children' = [children EXCEPT ![folderPath] = RemoveAt(@, i)]
        /\ UNCHANGED <<folders, indexFiles, docs, now, ret, failures>>
        /\ UNCHANGED <<panelVars, diffVars, taskVars>>

\* the calls, under which the read of a snapshot or the write of the document
\* may fail, over version folders that can lose snapshot files
NextLost ==
    \/ Calls({NoFault, "readContent", "modifyDoc"}, {""}, {Undefined})
    \/ Environment
    \/ \E file \in Files, i \in 1..MaxTime * MaxVid : LoseSnapshot(file, i)

SpecLost == Init /\ [][NextLost]_vars

---------------------------------------------------------------------------
(* The panel's actions (src/src/main.ts, src/src/ui/version-view.ts) *)

SetPanel(w) ==
    /\ isRendering' = w.isRendering
    /\ pendingRender' = w.pendingRender
    /\ currentFile' = w.currentFile
    /\ container' = w.container
    /\ bodies' = w.bodies

\* render() is called while the host's active document is `active`; last
\* records whether the call found isRendering set, how many calls before it
\* did since the last body began, and how many bodies the call began
RenderCall(active) ==
    LET w == render(Panel, active)
    IN  /\ SetPanel(w)
        /\ requested' = IF w.runs > 0 THEN 0
                        ELSE IF requested < MaxRequested THEN requested + 1
                        ELSE requested
        /\ last' = [op |-> "render", inFlight |-> isRendering,
                    requested |-> requested, started |-> w.runs]

\* VersionViewLeaf.onOpen: new VersionView(...), whose constructor calls render()
OnOpen ==
    /\ versionView = "none"
    /\ versionView' = "open"
    /\ RenderCall(activeFile)
    /\ UNCHANGED <<activeFile, storeVars, diffVars, taskVars>>

\* VersionViewLeaf.onClose: this.versionView = null
OnClose ==
    /\ versionView = "open"
    /\ versionView' = "closed"
    /\ UNCHANGED <<activeFile, isRendering, pendingRender, currentFile,
                   container, bodies, requested, last, storeVars, diffVars, taskVars>>

\* the host's file-open event: the document at path (or none) is now the
\* active one, and the leaf's handler refreshes the view if it has one
FileOpen(path) ==
    /\ activeFile' = path
    /\ IF versionView = "open"
       THEN RenderCall(path)
       ELSE UNCHANGED <<isRendering, pendingRender, currentFile, container,
                        bodies, requested, last>>
    /\ UNCHANGED <<versionView, storeVars, diffVars, taskVars>>

\* a handler of the panel (save, restore, delete, edit) calls render() after
\* its call of the service
Render ==
    /\ versionView # "none"
    /\ RenderCall(activeFile)
    /\ UNCHANGED <<versionView, activeFile, storeVars, diffVars, taskVars>>

\* getVersions returns to the i-th suspended body, which runs to its end
RenderResume(i) ==
    LET versions == getVersions(Vault, FileAt(bodies[i]), NoFault).value
        w == renderResume(Panel, i, versions, activeFile)
    IN  /\ SetPanel(w)
        /\ requested' = 0
        /\ last' = [op |-> "resume", inFlight |-> isRendering,
                    requested |-> requested, started |-> w.runs]
        /\ UNCHANGED <<versionView, activeFile, storeVars, diffVars, taskVars>>

\* the panel over a store in which versions are saved and deleted
NextView ==
    \/ OnOpen
    \/ OnClose
    \/ \E path \in Paths \cup {Null} : FileOpen(path)
    \/ Render
    \/ \E i \in 1..Len(bodies) : RenderResume(i)
    \/ \E file \in Files, timestamp \in Time :
          SaveVersion(file, "", Undefined, timestamp, 0, NoFault)
    \/ \E file \in Files, timestamp \in Time :
          DeleteVersion(file, timestamp, NoFault)
    \/ Return

SpecView == Init /\ [][NextView]_vars

---------------------------------------------------------------------------
(* The diff service's calls *)

\* the diff of two texts is asked for: diffs is an edit script of the library
\* for them
InitDiff ==
    /\ StoreInit
    /\ PanelInit
    /\ diffs \in LibraryScripts
    /\ oldText = OldOf(diffs)
    /\ newText = NewOf(diffs)
    /\ segments = NotCalled
    /\ panes = NotCalled
    /\ TaskInit

ComputeDiff ==
    /\ ~segments.called
    /\ segments' = Returned(computeDiff(diffs))
    /\ UNCHANGED <<oldText, newText, diffs, panes, storeVars, panelVars, taskVars>>

\* DiffViewModal.onOpen
RenderSideBySide ==
    /\ ~panes.called
    /\ panes' = Returned(renderSideBySide(diffs))
    /\ UNCHANGED <<oldText, newText, diffs, segments, storeVars, panelVars, taskVars>>

NextDiff == ComputeDiff \/ RenderSideBySide

SpecDiff == InitDiff /\ [][NextDiff]_vars

---------------------------------------------------------------------------
(* The plugin's saves (src/src/main.ts), their saveVersion calls running    *)
(* step by step                                                              *)

\* the first slot with no call in flight, 0 when each slot has one
FreeSlot ==
    IF \E t \in TaskIds : tasks[t].pc = "idle"
    THEN CHOOSE t \in TaskIds :
            /\ tasks[t].pc = "idle"
            /\ \A u \in 1..(t - 1) : tasks[u].pc # "idle"
    ELSE 0

\* a caller calls saveVersion: the call runs to its first await
Begin(file, caller, name, description, timestamp, vid) ==
    /\ FreeSlot # 0
    /\ timestamp >= now
    /\ Asked(file, timestamp, vid, name, description) \notin saved
    /\ Cardinality(saved) < MaxSaves
    /\ now' = timestamp
    /\ tasks' = [tasks EXCEPT ![FreeSlot] =
                    saveVersionBegin(file, caller, name, description,
                                     timestamp, vid)]
    /\ saved' = saved \cup {Asked(file, timestamp, vid, name, description)}

\* the plugin's handler of the host's file-open event, while no panel is
\* open: autoSaveVersion(file) is called and not awaited
OnFileOpen(path, timestamp, vid) ==
    /\ versionView # "open"
    /\ activeFile' = path
    /\ IF autoSave /\ path # Null
       THEN Begin(FileAt(path), "auto", Undefined, AutoSaveMark, timestamp, vid)
       ELSE UNCHANGED <<now, tasks, saved>>
    /\ UNCHANGED <<folders, indexFiles, children, docs, ret, failures,
                   versionView, isRendering, pendingRender, currentFile,
                   container, bodies, requested, last, autoSave, diffVars>>

\* the command save-current-version, with a document active
SaveCurrentVersion(timestamp, vid) ==
    /\ activeFile # Null
    /\ Begin(FileAt(activeFile), "manual", Undefined, Undefined, timestamp, vid)
    /\ UNCHANGED <<folders, indexFiles, children, docs, ret, failures,
                   panelVars, autoSave, diffVars>>

\* the toggle of the settings tab
SetAutoSave(value) ==
    /\ autoSave # value
    /\ autoSave' = value
    /\ UNCHANGED <<storeVars, panelVars, diffVars, tasks, saved>>

\* the I/O the call of slot t waits for completes: the call runs to its next
\* await, or to its end and on into its caller
TaskStep(t) ==
    LET r == saveVersionStep(Vault, tasks[t])
    IN  /\ tasks[t].pc # "idle"
        /\ folders' = r.v.folders
        /\ indexFiles' = r.v.indexFiles
        /\ children' = r.v.children
        /\ docs' = r.v.docs
        /\ tasks' = [tasks EXCEPT ![t] = IF r.ended THEN Settle(r.task, r.threw)
                                         ELSE r.task]
        /\ UNCHANGED <<now, ret, failures, panelVars, diffVars, autoSave, saved>>

\* automatic and manual saves of the documents, overlapping as the event
\* loop allows; each file-open event is for a document
NextRace ==
    \/ \E path \in Paths, timestamp \in Time, vid \in Vids :
          OnFileOpen(path, timestamp, vid)
    \/ \E timestamp \in Time, vid \in Vids : SaveCurrentVersion(timestamp, vid)
    \/ \E value \in BOOLEAN : SetAutoSave(value)
    \/ \E t \in TaskIds : TaskStep(t)

SpecRace == Init /\ [][NextRace]_vars

\* no saveVersion call is in flight
AllIdle == \A t \in TaskIds : tasks[t].pc = "idle"

\* no saveVersion call begun so far read this timestamp from the clock
Fresh(timestamp) == \A call \in saved : call.timestamp # timestamp

\* the operations on the documents one at a time, each save at a clock
\* reading of its own: a save runs step by step to its end before the next
\* operation begins
NextSolo ==
    \/ /\ AllIdle
       /\ Idle
       /\ \E timestamp \in Time, vid \in Vids :
             /\ Fresh(timestamp)
             /\ \/ \E path \in Paths : OnFileOpen(path, timestamp, vid)
                \/ SaveCurrentVersion(timestamp, vid)
    \/ \E value \in BOOLEAN : SetAutoSave(value)
    \/ \E t \in TaskIds : TaskStep(t)
    \/ /\ AllIdle
       /\ \E file \in Files, timestamp \in Time :
             \/ DeleteVersion(file, timestamp, NoFault)
             \/ RestoreVersion(file, timestamp, NoFault)
             \/ \E updates \in [name : {"n"}, description : OptDescriptions] :
                   UpdateVersion(file, timestamp, updates, NoFault)
    \/ Return

SpecSolo == Init /\ [][NextSolo]_vars

---------------------------------------------------------------------------
(* Documents whose names differ only in folder or extension *)

\* the document of Files, one of the same name in another folder, and one
\* of the same name but for its extension
Documents ==
    Files \cup {[path |-> "archive/a.md", name |-> <<"a", "md">>],
                [path |-> "notes/a.txt", name |-> <<"a", "txt">>]}

\* a vault with no version folder that holds the three documents
InitTwins ==
    /\ folders = {}
    /\ indexFiles = [p \in {getVersionFolder(f.name) : f \in Documents} |->
                        NoIndexFile]
    /\ children = [p \in {getVersionFolder(f.name) : f \in Documents} |-> <<>>]
    /\ docs \in [{f.path : f \in Documents} -> Texts]
    /\ now = 1
    /\ ret = NoCall
    /\ failures = 0
    /\ PanelInit
    /\ oldText = <<>>
    /\ newText = <<>>
    /\ diffs = <<>>
    /\ segments = NotCalled
    /\ panes = NotCalled
    /\ TaskInit

\* versions of the three documents are saved, deleted and renamed
NextTwins ==
    \/ \E file \in Documents, timestamp \in Time :
          \/ \E vid \in Vids :
                SaveVersion(file, "", Undefined, timestamp, vid, NoFault)
          \/ DeleteVersion(file, timestamp, NoFault)
          \/ UpdateVersion(file, timestamp,
                           [name |-> "n", description |-> Undefined], NoFault)
    \/ Return

SpecTwins == InitTwins /\ [][NextTwins]_vars


---------------------------------------------------------------------------
(* Properties.  The persisted version list of a document in a vault state,  *)
(* its snapshot files, and the inputs a call can begin with.                *)

VersionsIn(v, file) == v.indexFiles[getVersionFolder(file.name)].data.versions

KidsIn(v, file) == v.children[getVersionFolder(file.name)]

Timestamps(versions) == {versions[i].timestamp : i \in 1..Len(versions)}

DistinctTimestamps(versions) ==
    \A i, j \in 1..Len(versions) :
        i # j => versions[i].timestamp # versions[j].timestamp

Min(a, b) == IF a <= b THEN a ELSE b

\* C1: Retention.  A completed saveVersion leaves at most maxVersions
\* entries; when the timestamps involved are distinct it leaves the new entry
\* followed by the newest previous entries, cut to maxVersions entries (so
\* after maxVersions + K saves exactly the maxVersions last saved remain).
C1_Retention ==
    \A file \in Files, name \in OptNames, description \in OptDescriptions,
       timestamp \in Time, vid \in Vids :
        (Idle /\ timestamp >= now) =>
            LET r == saveVersion(Vault, file, name, description, timestamp,
                                 vid, NoFault)
                old == VersionsIn(Vault, file)
                new == VersionsIn(r.v, file)
            IN  ~r.threw =>
                    /\ Len(new) <= maxVersions
                    /\ (DistinctTimestamps(old) /\ timestamp \notin Timestamps(old)) =>
                          /\ Len(new) = Min(Len(old) + 1, maxVersions)
                          /\ new[1].timestamp = timestamp
                          /\ new[1].snapshot = docs[file.path]
                          /\ \A i \in 2..Len(new) : new[i] = old[i - 1]

\* a saveVersion on a full list with distinct timestamps has evicted the oldest
C1_Witness ==
    /\ ret.op = "saveVersion" /\ ~ret.threw
    /\ ret.before = maxVersions
    /\ \E file \in Files :
          /\ Len(VersionsIn(Vault, file)) = maxVersions
          /\ DistinctTimestamps(VersionsIn(Vault, file))
          /\ VersionsIn(Vault, file)[1].timestamp = MaxTime

\* C2: Numbering.  The numbers the panel gives the list of getVersions are
\* exactly 1..length, each once; the last entry (the oldest surviving one,
\* no entry has a smaller timestamp) is numbered 1 and the first (the
\* newest) is numbered length.
C2_Numbering ==
    \A file \in Files :
        LET versions == getVersions(Vault, file, NoFault).value
            numbers == VersionNumbers(versions)
            n == Len(versions)
        IN  /\ Len(numbers) = n
            /\ {numbers[i] : i \in 1..n} = 1..n
            /\ \A i, j \in 1..n : numbers[i] = numbers[j] => i = j
            /\ \A i \in 1..n :
                  /\ numbers[i] = 1 =>
                        \A j \in 1..n : versions[i].timestamp <= versions[j].timestamp
                  /\ numbers[i] = n =>
                        \A j \in 1..n : versions[i].timestamp >= versions[j].timestamp
                  /\ numbers[i] = 1 <=> i = n

\* a delete has removed one of two versions and the survivor is numbered 1
C2_Witness ==
    /\ ret.op = "deleteVersion"
    /\ ret.before = 2
    /\ \E file \in Files :
          /\ Len(VersionsIn(Vault, file)) = 1
          /\ VersionNumbers(getVersions(Vault, file, NoFault).value) = <<1>>

\* C7: Every saveVersion creates a snapshot.  A completed saveVersion on a
\* list below maxVersions leaves the new VersionMeta followed by the previous
\* entries in their order, and adds exactly one snapshot file.
C7_SavePrepends ==
    \A file \in Files, name \in OptNames, description \in OptDescriptions,
       timestamp \in Time, vid \in Vids :
        (Idle /\ timestamp >= now) =>
            LET r == saveVersion(Vault, file, name, description, timestamp,
                                 vid, NoFault)
                old == VersionsIn(Vault, file)
                new == VersionsIn(r.v, file)
                kids == KidsIn(Vault, file)
                kids2 == KidsIn(r.v, file)
            IN  (~r.threw /\ Len(old) < maxVersions) =>
                    /\ Len(new) = Len(old) + 1
                    /\ new[1].timestamp = timestamp
                    /\ new[1].filename = file.name
                    /\ new[1].originalPath = file.path
                    /\ new[1].snapshot = docs[file.path]
                    /\ Field(new[1], "description") = description
                    /\ \A i \in 1..Len(old) : new[i + 1] = old[i]
                    /\ Len(kids2) = Len(kids) + 1
                    /\ \A i \in 1..Len(kids) : kids2[i] = kids[i]
                    /\ kids2[Len(kids2)].content = docs[file.path]

\* a saveVersion has put a second entry in front of a first
C7_Witness ==
    /\ ret.op = "saveVersion" /\ ~ret.threw
    /\ ret.before = 1
    /\ \E file \in Files :
          /\ Len(VersionsIn(Vault, file)) = 2
          /\ Len(KidsIn(Vault, file)) = 2

\* the version list and the snapshot files hold each timestamp at most once
NoCollision(v, file) ==
    /\ DistinctTimestamps(VersionsIn(v, file))
    /\ \A i, j \in 1..Len(KidsIn(v, file)) :
          i # j => KidsIn(v, file)[i].name[2] # KidsIn(v, file)[j].name[2]

\* C3: Restore.  Whenever restoreVersion(doc, t) returns success, the live
\* text of the document is the text captured by the saveVersion that created
\* the index entry with timestamp t, and the index file is as before.
C3_RestoreExact ==
    \A file \in Files, timestamp \in Time :
        Idle =>
            LET r == restoreVersion(Vault, file, timestamp, NoFault)
                old == VersionsIn(Vault, file)
            IN  r.value = TRUE =>
                    /\ \A i \in 1..Len(old) :
                          old[i].timestamp = timestamp =>
                              r.v.docs[file.path] = old[i].snapshot
                    /\ r.v.indexFiles = indexFiles

\* C4: getVersionContent(doc, t) returns the text the document had when the
\* snapshot with timestamp t was saved if t is in the index and a snapshot
\* file for t exists, and null, without throwing, if t is not in the index
\* or no snapshot file for t exists.
C4_ContentExact ==
    \A file \in Files, timestamp \in Time :
        Idle =>
            LET r == getVersionContent(Vault, file, timestamp, NoFault)
                old == VersionsIn(Vault, file)
                indexed == timestamp \in Timestamps(old)
                stored == \E i \in 1..Len(KidsIn(Vault, file)) :
                             KidsIn(Vault, file)[i].name[2] = timestamp
            IN  /\ ~r.threw
                /\ r.v = Vault
                /\ (~indexed \/ ~stored) => r.value = Null
                /\ (indexed /\ stored) =>
                      /\ r.value # Null
                      /\ \A i \in 1..Len(old) :
                            old[i].timestamp = timestamp =>
                                r.value = old[i].snapshot

\* C5: updateVersion applies only the fields provided.  On a timestamp of the
\* index it returns success and changes one entry with that timestamp: its
\* name if a name is given (the empty string is stored as the empty string),
\* its description if one is given, nothing else of it, no other entry and
\* not the order; on an absent timestamp it returns failure and leaves the
\* index file as it is.
C5_UpdateOnlyGiven ==
    \A file \in Files, timestamp \in Time, updates \in Updates :
        Idle =>
            LET r == updateVersion(Vault, file, timestamp, updates, NoFault)
                old == VersionsIn(Vault, file)
                new == VersionsIn(r.v, file)
            IN  IF timestamp \notin Timestamps(old)
                THEN r.value = FALSE /\ r.v.indexFiles = indexFiles
                ELSE /\ r.value = TRUE
                     /\ Len(new) = Len(old)
                     /\ \E i \in 1..Len(old) :
                           /\ old[i].timestamp = timestamp
                           /\ \A j \in 1..Len(old) : j # i => new[j] = old[j]
                           /\ new[i].timestamp = old[i].timestamp
                           /\ new[i].filename = old[i].filename
                           /\ new[i].originalPath = old[i].originalPath
                           /\ new[i].snapshot = old[i].snapshot
                           /\ Field(new[i], "name") =
                                 IF updates.name = Undefined
                                 THEN Field(old[i], "name") ELSE updates.name
                           /\ Field(new[i], "description") =
                                 IF updates.description = Undefined
                                 THEN Field(old[i], "description")
                                 ELSE updates.description

\* an update has succeeded on an entry that has a description and whose
\* name is a non-empty string
C5_Witness ==
    /\ ret.op = "updateVersion" /\ ret.value = TRUE
    /\ \E file \in Files :
          \E i \in 1..Len(VersionsIn(Vault, file)) :
              /\ Field(VersionsIn(Vault, file)[i], "name") = "n"
              /\ Field(VersionsIn(Vault, file)[i], "description") = "d"

\* C6: deleteVersion(doc, t) removes the index entry with timestamp t and its
\* snapshot file and leaves the other index entries, their order and the
\* other snapshot files as they are; with t not in the index the version
\* list is unchanged.
C6_DeleteExact ==
    \A file \in Files, timestamp \in Time :
        Idle =>
            LET r == deleteVersion(Vault, file, timestamp, NoFault)
                old == VersionsIn(Vault, file)
                new == VersionsIn(r.v, file)
                kids == KidsIn(Vault, file)
                kids2 == KidsIn(r.v, file)
                Other(kid) == kid.name[2] # timestamp
            IN  /\ new = SelectSeq(old, LAMBDA m : m.timestamp # timestamp)
                /\ timestamp \notin Timestamps(old) => new = old
                /\ SelectSeq(kids2, Other) = SelectSeq(kids, Other)
                /\ timestamp \in Timestamps(old) =>
                      \A i \in 1..Len(kids2) : Other(kids2[i])

C9_DistinctTimestamps ==
    \A file \in Files : DistinctTimestamps(VersionsIn(Vault, file))

\* the failures of a file create, modify or delete of the host for a reason
\* other than "already exists"
StorageFailures == {"createFolder", "createContent", "writeIndex",
                    "modifyDoc", "deleteContent"}

\* C10: A storage I/O failure inside any public operation of the service,
\* saveVersion included, is caught: the call returns without throwing.
C10_FailureCaught == ret.fault \in StorageFailures => ~ret.threw

\* C11: deleteVersion never propagates a fault: whichever I/O of the host
\* fails under it, the call ends without throwing, and afterwards the
\* version list either still holds the entries with the timestamp or holds
\* them no longer, with every other entry as it was.
C11_DeleteContained ==
    \A file \in Files, timestamp \in Time, fault \in Faults \cup {NoFault} :
        (Idle /\ (fault # NoFault => failures < MaxFailures)) =>
            LET r == deleteVersion(Vault, file, timestamp, fault)
                old == VersionsIn(Vault, file)
                new == VersionsIn(r.v, file)
            IN  /\ ~r.threw
                /\ new = old \/ new = FilterVersions(old, timestamp)

\* the index file of the document is not there, or its text does not parse
IndexUnreadable(v, file) ==
    \/ ~v.indexFiles[getVersionFolder(file.name)].exists
    \/ ~v.indexFiles[getVersionFolder(file.name)].valid

\* C12: When the index file is missing or its text is malformed, every
\* operation behaves as on an index of zero versions and none throws a parse
\* fault: getVersions returns the empty sequence, getVersionContent null,
\* restoreVersion and updateVersion failure with the vault untouched,
\* deleteVersion leaves a well-formed index of zero versions, and saveVersion
\* (which throws only when the snapshot file name is taken) leaves a
\* well-formed index holding the new entry alone.
C12_MalformedAsEmpty ==
    \A file \in Files :
        (Idle /\ IndexUnreadable(Vault, file)) =>
            LET folderPath == getVersionFolder(file.name)
            IN  /\ getVersions(Vault, file, NoFault) = Result(Vault, FALSE, <<>>)
                /\ \A timestamp \in Time :
                      /\ getVersionContent(Vault, file, timestamp, NoFault)
                            = Result(Vault, FALSE, Null)
                      /\ restoreVersion(Vault, file, timestamp, NoFault)
                            = Result(Vault, FALSE, FALSE)
                      /\ \A updates \in Updates :
                            updateVersion(Vault, file, timestamp, updates, NoFault)
                                = Result(Vault, FALSE, FALSE)
                      /\ LET r == deleteVersion(Vault, file, timestamp, NoFault)
                         IN  /\ ~r.threw
                             /\ r.v.indexFiles[folderPath] =
                                   [exists |-> TRUE, valid |-> TRUE,
                                    data |-> EmptyIndex]
                      /\ \A name \in OptNames, description \in OptDescriptions,
                            vid \in Vids :
                            LET r == saveVersion(Vault, file, name, description,
                                                 timestamp, vid, NoFault)
                                taken == \E i \in 1..Len(KidsIn(Vault, file)) :
                                            KidsIn(Vault, file)[i].name =
                                                versionFilename(timestamp, vid)
                            IN  /\ r.threw <=> taken
                                /\ ~r.threw =>
                                      r.v.indexFiles[folderPath] =
                                         [exists |-> TRUE, valid |-> TRUE,
                                          data |-> [versions |->
                                                       <<StringifyMeta(r.value)>>,
                                                    lastUpdated |-> timestamp]]

\* getVersions has returned the empty sequence on an index file whose
\* damaged text held a version
C12_Witness ==
    /\ ret.op = "getVersions"
    /\ ret.value = <<>>
    /\ \E file \in Files :
          /\ indexFiles[getVersionFolder(file.name)].exists
          /\ ~indexFiles[getVersionFolder(file.name)].valid
          /\ Len(VersionsIn(Vault, file)) >= 1

\* C13: At most one render body of the view is in flight at any time; a call
\* of render() that finds one in flight starts no body and leaves the pending
\* flag set; and the end of a body starts exactly one body again if one or
\* more calls were made during its flight (clearing the flag), and none
\* otherwise.
C13_SingleFlight ==
    /\ Len(bodies) <= 1
    /\ (last.op = "render" /\ last.inFlight) =>
          /\ last.started = 0
          /\ pendingRender
    /\ last.op = "resume" =>
          /\ last.started = IF last.requested > 0 THEN 1 ELSE 0
          /\ ~pendingRender

\* a body has ended after two calls of render() were made during its flight,
\* and one body was started again
C13_Witness ==
    /\ last.op = "resume"
    /\ last.requested >= 2
    /\ last.started = 1
    /\ Len(bodies) = 1

\* C14: The view never drops a render request: it always returns to a state
\* in which a call of render() runs a render body, that is, whenever no body
\* of the open view is in flight a call of render() begins one.
C14_RequestRuns ==
    (versionView = "open" /\ bodies = <<>>) =>
        render(Panel, activeFile).runs = 1

LastUpdatedIn(v, file) ==
    v.indexFiles[getVersionFolder(file.name)].data.lastUpdated

\* C15: lastUpdated of a document's index is the time of the last mutation
\* of the index: after a completed saveVersion (with its evictions), and
\* after a deleteVersion or an updateVersion that changed the version list,
\* run when the clock reads time, lastUpdated is time.
C15_LastUpdated ==
    \A file \in Files, timestamp \in Time, time \in Time :
        (Idle /\ time >= now) =>
            /\ \A name \in OptNames, description \in OptDescriptions,
                  vid \in Vids :
                  LET r == saveVersion(Vault, file, name, description, time,
                                       vid, NoFault)
                  IN  ~r.threw => LastUpdatedIn(r.v, file) = time
            /\ LET r == deleteVersion(Vault, file, timestamp, NoFault)
               IN  VersionsIn(r.v, file) # VersionsIn(Vault, file) =>
                       LastUpdatedIn(r.v, file) = time
            /\ \A updates \in Updates :
                  LET r == updateVersion(Vault, file, timestamp, updates, NoFault)
                  IN  VersionsIn(r.v, file) # VersionsIn(Vault, file) =>
                          LastUpdatedIn(r.v, file) = time

---------------------------------------------------------------------------
(* Properties of the diff service *)

\* the texts of the segments of the given kinds, concatenated in order
RECURSIVE SegmentText(_, _)
SegmentText(segs, kinds) ==
    IF segs = <<>> THEN <<>>
    ELSE (IF Head(segs).type \in kinds THEN Head(segs).text ELSE <<>>)
            \o SegmentText(Tail(segs), kinds)

\* C16: Diff round trip.  The equal and insert segments computeDiff returns
\* for (oldText, newText), concatenated in order, are exactly newText, and
\* its equal and delete segments exactly oldText.
C16_RoundTrip ==
    segments.called =>
        /\ SegmentText(segments.value, {"equal", "insert"}) = newText
        /\ SegmentText(segments.value, {"equal", "delete"}) = oldText
        /\ \A i \in 1..Len(segments.value) :
              segments.value[i].type \in {"equal", "insert", "delete"}

\* computeDiff has returned a script that deletes and inserts for two
\* different texts
C16_Witness ==
    /\ segments.called
    /\ oldText # newText
    /\ \E i, j \in 1..Len(segments.value) :
          /\ segments.value[i].type = "delete"
          /\ segments.value[j].type = "insert"

\* the line is wrapped in the given pair of tags (inside the frontmatter
\* span, if it has one)
HasMarker(html, open, close) ==
    \E i, j \in 1..Len(html) : i < j /\ html[i] = open /\ html[j] = close

\* the text of the line as markFrontmatter and the filter are to see it
TextContent(line) == Trim(StripTags(line.html))

IsFrontmatter(line) ==
    /\ Len(line.html) >= 2
    /\ line.html[1] = SpanOpen
    /\ line.html[Len(line.html)] = SpanClose

\* C17: Every line of inserted text in the new pane is wrapped in the insert
\* marker, however it was flushed, and every line of deleted text in the old
\* pane in the delete marker.
C17_ChangedLinesMarked ==
    panes.called =>
        /\ \A i \in 1..Len(panes.value.rightLines) :
              panes.value.rightLines[i].origin = "insert" =>
                  HasMarker(panes.value.rightLines[i].html, InsOpen, InsClose)
        /\ \A i \in 1..Len(panes.value.leftLines) :
              panes.value.leftLines[i].origin = "delete" =>
                  HasMarker(panes.value.leftLines[i].html, DelOpen, DelClose)

\* C18: After the filtering step neither pane holds a line whose content,
\* tags stripped, is empty or white space only.
C18_NoBlankLines ==
    panes.called =>
        /\ \A i \in 1..Len(panes.value.leftLines) :
              TextContent(panes.value.leftLines[i]) # <<>>
        /\ \A i \in 1..Len(panes.value.rightLines) :
              TextContent(panes.value.rightLines[i]) # <<>>

\* position of the first line of dashes after the first line, 0 if none
ClosingLine(lines) ==
    IF \E c \in 2..Len(lines) : TextContent(lines[c]) = Dashes
    THEN CHOOSE c \in 2..Len(lines) :
            /\ TextContent(lines[c]) = Dashes
            /\ \A j \in 2..(c - 1) : TextContent(lines[j]) # Dashes
    ELSE 0

\* the lines of a pane begin with a line of dashes and hold a later one
FrontmatterShape(lines) ==
    /\ Len(lines) >= 2
    /\ TextContent(lines[1]) = Dashes
    /\ ClosingLine(lines) # 0

\* the marking of a pane whose lines have the shape of a frontmatter block
\* followed by a body
MarkedAsBlock(before, after) ==
    /\ Len(after) = Len(before)
    /\ \A j \in 1..Len(after) :
          IsFrontmatter(after[j]) <=> j <= ClosingLine(before)

\* C19: Frontmatter marking.  When the lines of a pane are a line ---, then N
\* lines that are not ---, then a line ---, then body lines, every line from
\* the first through the closing --- carries the frontmatter marker and no
\* line after it does, a later third --- included; in both panes alike.
C19_FrontmatterMarked ==
    panes.called =>
        /\ FrontmatterShape(panes.value.filteredLeftLines) =>
              MarkedAsBlock(panes.value.filteredLeftLines, panes.value.leftLines)
        /\ FrontmatterShape(panes.value.filteredRightLines) =>
              MarkedAsBlock(panes.value.filteredRightLines, panes.value.rightLines)

\* a pane has been rendered whose lines are ---, a key line, ---, a body line
\* and a third ---
C19_Witness ==
    /\ panes.called
    /\ FrontmatterShape(panes.value.filteredRightLines)
    /\ ClosingLine(panes.value.filteredRightLines) >= 3
    /\ \E j \in 1..Len(panes.value.filteredRightLines) :
          /\ j > ClosingLine(panes.value.filteredRightLines) + 1
          /\ TextContent(panes.value.filteredRightLines[j]) = Dashes

\* no line of the marked pane carries the frontmatter marker
NoneMarked(after) == \A j \in 1..Len(after) : ~IsFrontmatter(after[j])

\* C20: A frontmatter block is recognised only at the head of a pane: when
\* the first line of the pane is not ---, no line of the pane carries the
\* frontmatter marker, whatever --- lines come later.
C20_LeadingOnly ==
    panes.called =>
        /\ (Len(panes.value.filteredLeftLines) >= 1
              /\ TextContent(panes.value.filteredLeftLines[1]) # Dashes) =>
                 NoneMarked(panes.value.leftLines)
        /\ (Len(panes.value.filteredRightLines) >= 1
              /\ TextContent(panes.value.filteredRightLines[1]) # Dashes) =>
                 NoneMarked(panes.value.rightLines)

\* the line carries neither the insert nor the delete marker
Unmarked(line) ==
    /\ ~HasMarker(line.html, InsOpen, InsClose)
    /\ ~HasMarker(line.html, DelOpen, DelClose)

\* the escaped text of the lines that carry no change marker, in order
UnmarkedTexts(lines) ==
    LET plain == SelectSeq(lines, Unmarked)
    IN  [i \in 1..Len(plain) |-> StripTags(plain[i].html)]

\* C21: An equal segment first flushes the pending deleted and inserted text
\* as marked lines of their own and then puts each equal line unmarked into
\* both panes: the unmarked lines of the two panes are the same texts in the
\* same order, and no unmarked line holds deleted or inserted text.
C21_EqualLinesAligned ==
    panes.called =>
        /\ UnmarkedTexts(panes.value.filteredLeftLines)
              = UnmarkedTexts(panes.value.filteredRightLines)
        /\ \A i \in 1..Len(panes.value.leftLines) :
              Unmarked(panes.value.leftLines[i]) =>
                  panes.value.leftLines[i].origin = "equal"
        /\ \A i \in 1..Len(panes.value.rightLines) :
              Unmarked(panes.value.rightLines[i]) =>
                  panes.value.rightLines[i].origin = "equal"

\* C22: restoreVersion never throws, and when it cannot read the snapshot
\* (the timestamp is not in the index, no snapshot file is there for it, or
\* the read fails) or the overwrite of the document fails, it returns failure
\* and leaves the document, the index and the snapshot files as they were.
C22_RestoreFailsClean ==
    \A file \in Files, timestamp \in Time, fault \in Faults \cup {NoFault} :
        (Idle /\ (fault # NoFault => failures < MaxFailures)) =>
            LET r == restoreVersion(Vault, file, timestamp, fault)
                unreadable ==
                    \/ timestamp \notin Timestamps(VersionsIn(Vault, file))
                    \/ FirstMatch(KidsIn(Vault, file), timestamp) = 0
                    \/ fault \in {"readIndex", "readContent"}
            IN  /\ ~r.threw
                /\ r.value \in BOOLEAN
                /\ (unreadable \/ fault = "modifyDoc") =>
                      /\ r.value = FALSE
                      /\ r.v = Vault

\* restoreVersion has returned failure for a timestamp of the index whose
\* snapshot file is gone
C22_Witness ==
    /\ ret.op = "restoreVersion"
    /\ ret.value = FALSE
    /\ ret.fault = NoFault
    /\ \E file \in Files :
          \E i \in 1..Len(VersionsIn(Vault, file)) :
              FirstMatch(KidsIn(Vault, file),
                         VersionsIn(Vault, file)[i].timestamp) = 0

\* the call of slot t ends in this step
Ends(t) == tasks[t].pc # "idle" /\ tasks'[t].pc = "idle"

\* the call of slot t begins in this step
Begins(t) == tasks[t].pc = "idle" /\ tasks'[t].pc # "idle"

\* the version list of the vault holds an entry of the given timestamp and
\* description with no name
HoldsUnnamed(v, file, timestamp, description) ==
    \E i \in 1..Len(VersionsIn(v, file)) :
        LET m == VersionsIn(v, file)[i]
        IN  /\ m.timestamp = timestamp
            /\ Field(m, "description") = description
            /\ Field(m, "name") = Undefined

\* C23: with autoSave true, the automatic save a file-open event starts
\* leaves, when it has ended without a failure, a snapshot of the document in
\* the version list whose description is the auto-saved marker and whose name
\* is unset; with autoSave false no automatic save starts; and no automatic
\* save ends with its failure passed on out of the handler
C23_AutoSave ==
    [][\A t \in TaskIds :
          /\ (Ends(t) /\ tasks'[t].caller = "auto" /\ tasks'[t].outcome = "logged")
                => HoldsUnnamed(Vault', FileAt(tasks[t].path),
                                tasks[t].timestamp, AutoSaveMark)
          /\ (Begins(t) /\ tasks'[t].caller = "auto") => autoSave
          /\ (Ends(t) /\ tasks'[t].caller = "auto")
                => tasks'[t].outcome # "rejected"]_vars

\* the entry is what the call asked for
EntryOf(m, call) ==
    /\ m.filename = call.filename
    /\ m.originalPath = call.originalPath
    /\ m.timestamp = call.timestamp
    /\ Field(m, "name") = call.name
    /\ Field(m, "description") = call.description

\* the content file of the call is in the version folder
HasContent(v, call) ==
    \E f \in Files :
        /\ f.path = call.originalPath
        /\ \E i \in 1..Len(KidsIn(v, f)) :
              KidsIn(v, f)[i].name = versionFilename(call.timestamp, call.vid)

\* C24: whatever way the I/O steps of the saveVersion calls interleave, every
\* entry of the index was asked for by one of the calls (the index was empty
\* before the first of them)
C24_OnlyContributed ==
    \A file \in Files :
        \A i \in 1..Len(VersionsIn(Vault, file)) :
            \E call \in saved : EntryOf(VersionsIn(Vault, file)[i], call)

\* two calls on the same document at different clock readings, the only
\* calls made, have both ended: both content files exist, and the index
\* holds one entry, that of one of the two
C24_Witness ==
    /\ \A t \in TaskIds : tasks[t].pc = "idle"
    /\ \E a, b \in saved :
          /\ saved = {a, b}
          /\ a.originalPath = b.originalPath
          /\ a.timestamp # b.timestamp
          /\ HasContent(Vault, a)
          /\ HasContent(Vault, b)
    /\ \A file \in Files : Len(VersionsIn(Vault, file)) = 1

\* C25: the list getVersions returns is newest-first in every reachable
\* state, two saveVersion calls whose steps interleave included: each
\* entry's timestamp is greater than or equal to that of the entry after it
C25_NewestFirst ==
    \A file \in Files :
        LET versions == getVersions(Vault, file, NoFault).value
        IN  \A i \in 1..(Len(versions) - 1) :
                versions[i].timestamp >= versions[i + 1].timestamp

\* the timestamps in the names of the content files of a version folder
KidStamps(kids) == {kids[i].name[2] : i \in 1..Len(kids)}

\* C26: when the operations on a document run one at a time, no storage call
\* fails and the timestamps are distinct, then after every completed
\* saveVersion (its retention eviction included), deleteVersion,
\* updateVersion and restoreVersion the timestamps of the index are those of
\* the stored content files; and at every step of a saveVersion the index
\* lists no timestamp whose content file does not exist
C26_IndexContentConsistent ==
    \A file \in Files :
        /\ Timestamps(VersionsIn(Vault, file)) \subseteq KidStamps(KidsIn(Vault, file))
        /\ AllIdle =>
              Timestamps(VersionsIn(Vault, file)) = KidStamps(KidsIn(Vault, file))

\* a saveVersion stands between the index write of its eviction and the
\* removal of the evicted content file
C26_Witness ==
    \E t \in TaskIds :
        /\ tasks[t].pc = "deleteFile"
        /\ \A file \in Files :
              /\ Len(VersionsIn(Vault, file)) = maxVersions
              /\ Len(KidsIn(Vault, file)) = maxVersions + 1

\* the vault w has for the document what the vault v has: the list
\* getVersions returns and the content files of its version folder
SameVersions(file, v, w) ==
    /\ getVersions(w, file, NoFault).value = getVersions(v, file, NoFault).value
    /\ KidsIn(w, file) = KidsIn(v, file)

\* C27: for any two documents of different paths, those that share a base
\* name or differ only in folder or extension included, saveVersion (with
\* its retention eviction), deleteVersion and updateVersion on one leave the
\* list getVersions returns for the other, and its content files, unchanged
C27_OwnIndex ==
    Idle =>
        \A file, other \in Documents :
            file.path # other.path =>
                \A timestamp \in Time :
                    /\ \A vid \in Vids :
                          timestamp >= now =>
                              SameVersions(other, Vault,
                                  saveVersion(Vault, file, "", Undefined,
                                              timestamp, vid, NoFault).v)
                    /\ SameVersions(other, Vault,
                          deleteVersion(Vault, file, timestamp, NoFault).v)
                    /\ SameVersions(other, Vault,
                          updateVersion(Vault, file, timestamp,
                              [name |-> "n", description |-> Undefined],
                              NoFault).v)

====
